---- MODULE Spec2Model ----
(***************************************************************************)
(* Study Bot API (main.py): a FastAPI application that keeps conversations *)
(* in a MongoDB collection and proxies chat messages to a language model.  *)
(*                                                                         *)
(* State: the `conversations` collection, and for every request in flight  *)
(* its inputs, the position of its handler, the handler's local variables  *)
(* and its HTTP response.  Handlers are `async def` functions that contain *)
(* no `await`: the event loop of the single process started by             *)
(* uvicorn.run(app) runs one handler from its first line to its response   *)
(* before it starts the next one; `running` is the handler the loop is in. *)
(* A request is read when the loop takes it up, and an ended handler's     *)
(* response is sent before the loop takes up another request.              *)
(* Every pymongo call and llm.invoke may raise; a call that raises writes  *)
(* nothing.                                                                *)
(*                                                                         *)
(* Left out: the `timestamp`/`created_at` fields (datetime.now(), read by  *)
(* no handler), CORS, and environment loading.  A stored message carries   *)
(* instead the number of the call that pushed it (`call`), a history field *)
(* used only to state properties.                                          *)
(***************************************************************************)
EXTENDS Integers, Sequences, FiniteSets, TLC

\* ---------------------------------------------------------------- bounds
MaxSlots == 2        \* requests in flight at once
MaxCalls == 3        \* requests handled in a behaviour of Spec
MaxCallsLong == 7    \* requests handled in a behaviour of SpecLong
MaxConvs == 2        \* conversation records the store may hold
MaxConvsLong == 1    \* the same, in SpecLong
MaxLimit == 6        \* largest `limit` tried on get_recent_messages

Slots == 1..MaxSlots
Msgs == {"q1", "q2"}           \* request.message values
Replies == {"a1"}              \* response.content values of the model
MsgsLong == {"q1"}
RepliesLong == {"a1"}

\* ------------------------------------------------- identifiers and strings
\* A conversation_id as it arrives in a request: absent (None), the empty
\* string, a string that is no 24-digit hex ObjectId, or the hex form of one.
NoneId == [kind |-> "none", n |-> 0]
EmptyStr == [kind |-> "empty", n |-> 0]
BadStr == [kind |-> "bad", n |-> 0]
\* str(ObjectId): the hex string of an ObjectId.
Str(oid) == [kind |-> "hex", n |-> oid]
\* `if conversation_id:` -- None and "" are falsy.
Truthy(s) == s.kind \notin {"none", "empty"}
\* ObjectId(s) raises InvalidId unless s is the hex form of an ObjectId.
IsValidObjectId(s) == s.kind = "hex"
ObjectId(s) == s.n

\* The identifier strings a client may send: absent, empty, malformed, and
\* the hex form of ObjectIds 1..maxc+1 (maxc+1 is never assigned).
CidInputs(maxc) == {NoneId, EmptyStr, BadStr} \cup {Str(n) : n \in 1..(maxc + 1)}

\* ------------------------------------------------------------ messages
UserRole == "human"
AssistantRole == "ai"
SystemRole == "system"
SystemPrompt == "You are a helpful study assistant."
DefaultLimit == 5
NoDoc == [id |-> 0, messages |-> <<>>]
NoResp == [status |-> 0, detail |-> "", response |-> "", conversation_id |-> NoneId,
           doc |-> NoDoc]
NoReq == [kind |-> "none", message |-> "", conversation_id |-> NoneId]

VARIABLES
  conversations,    \* the collection: a sequence of documents, _id = index
  pc,               \* per slot: position of the request / handler
  req,              \* per slot: the request
  callno,           \* per slot: number of the call, in the order in which
                    \*   the handlers were entered (history)
  running,          \* the slots whose handler the event loop is executing
  ncalls,           \* handlers entered so far
  conversation,     \* chat local: the resolved or created document
  recent,           \* chat local: get_recent_messages(conv_id)
  messages_for_ai,  \* chat local: the prompt
  response,         \* chat local: response.content
  resp,             \* per slot: the HTTP response
  fault,            \* per slot: exceptions raised in the handler (history)
  before,           \* per slot: the conversation's messages when the call
                    \*   resolved it (history)
  appended,         \* per slot: add_message calls that pushed (history)
  created,          \* per slot: the call inserted a conversation (history)
  idsBefore         \* per slot: documents in the collection when the call
                    \*   began to resolve its identifier (history)

vars == <<conversations, pc, req, callno, running, ncalls, conversation, recent,
          messages_for_ai, response, resp, fault, before, appended, created,
          idsBefore>>

\* ------------------------------------------------------------ the store
Ids == 1..Len(conversations)
Exists(oid) == oid \in Ids
\* find_one({}) without the filter: the first document of the collection.
find_one_NoFilter(oid) ==
  IF oid \in 1..Len(conversations) THEN conversations[1] ELSE [id |-> 0, messages |-> <<>>]

\* conversations.find_one({"_id": oid}) that returns: the document or None.
find_one(oid) == IF Exists(oid) THEN conversations[oid] ELSE NoDoc
\* conversations.insert_one(new_conv): the collection with the new document.
insert_one(coll) == Append(coll, [id |-> Len(coll) + 1, messages |-> <<>>])
\* update_one with "$set" where "$push" is meant: the message replaces the
\* list.
update_one_set(coll, oid, m) ==
  IF oid \in 1..Len(coll)
  THEN [coll EXCEPT ![oid].messages = <<m>>]
  ELSE coll

\* conversations.update_one({"_id": oid}, {"$push": {"messages": m}}): a
\* filter that matches no document changes nothing.
update_one_push(coll, oid, m) ==
  IF oid \in 1..Len(coll)
  THEN [coll EXCEPT ![oid].messages = Append(@, m)]
  ELSE coll

\* list[-limit + 1:], an off-by-one of the slice below.
SliceFromMinus_OffByOne(list, limit) ==
  LET n == Len(list)
      k == limit - 1
      start == IF k >= 1
               THEN (IF k >= n THEN 0 ELSE n - k)
               ELSE (IF -k >= n THEN n ELSE -k)
  IN SubSeq(list, start + 1, n)

\* list[-limit:] of Python: the last `limit` elements for limit >= 1; for
\* limit <= 0 the start index -limit counts from the front.
SliceFromMinus(list, limit) ==
  LET n == Len(list)
      start == IF limit >= 1
               THEN (IF limit >= n THEN 0 ELSE n - limit)
               ELSE (IF -limit >= n THEN n ELSE -limit)
  IN SubSeq(list, start + 1, n)

\* list[:limit]: the first messages where the last ones are meant.
get_recent_messages_Head(oid, limit) ==
  IF oid \in 1..Len(conversations)
  THEN SubSeq(conversations[oid].messages, 1,
              IF limit < Len(conversations[oid].messages)
              THEN limit ELSE Len(conversations[oid].messages))
  ELSE <<>>

\* get_recent_messages(conversation_id, limit) when find_one returns.
get_recent_messages(oid, limit) ==
  IF Exists(oid) THEN SliceFromMinus(conversations[oid].messages, limit) ELSE <<>>

\* add_message with role and content exchanged.
add_message_Swapped(coll, oid, role, content, c) ==
  update_one_push(coll, oid, [role |-> content, content |-> role, call |-> c])

\* add_message(conversation_id, role, content), by call number c.
add_message(coll, oid, role, content, c) ==
  update_one_push(coll, oid, [role |-> role, content |-> content, call |-> c])

\* The stored role compared with "user", the name the client sees.
HistoryTurn_UserKey(msg) ==
  IF msg.role = "user"
  THEN [type |-> "human", content |-> msg.content]
  ELSE [type |-> "ai", content |-> msg.content]

\* chat, lines 121-137: the prompt built from the window and the new message.
HistoryTurn(msg) ==
  IF msg.role = "human"
  THEN [type |-> "human", content |-> msg.content]
  ELSE [type |-> "ai", content |-> msg.content]
BuildPrompt(window, message) ==
  <<[type |-> SystemRole, content |-> SystemPrompt]>>
  \o [i \in 1..Len(window) |-> HistoryTurn(window[i])]
  \o <<[type |-> "human", content |-> message]>>

\* ------------------------------------------------------- the event loop
\* Handlers run on worker threads: a handler starts whatever else runs.
LoopFree_Threaded == TRUE

\* The loop starts a handler only when it is in no other handler.
LoopFree == running = {}
Scheduled(s) == s \in running

\* The user turn saved before the model is invoked.
NextPc_SaveFirst(p) ==
  CASE p = "recent" -> "append_user"
    [] p = "append_user" -> "invoke"
    [] p = "invoke" -> "append_ai"
    [] p = "append_ai" -> "return"

\* The assistant turn saved before the user turn.
NextPc_ReplyFirst(p) ==
  CASE p = "recent" -> "invoke"
    [] p = "invoke" -> "append_ai"
    [] p = "append_ai" -> "append_user"
    [] p = "append_user" -> "return"

\* chat, lines 117-149: the handler's steps after the conversation is
\* resolved, in program order.
NextPc(p) ==
  CASE p = "recent" -> "invoke"
    [] p = "invoke" -> "append_user"
    [] p = "append_user" -> "append_ai"
    [] p = "append_ai" -> "return"

TypeOK ==
  /\ pc \in [Slots -> {"idle", "queued", "resolve", "insert", "recent", "invoke",
                       "append_user", "append_ai", "return", "get", "root", "done"}]
  /\ running \subseteq Slots
  /\ ncalls \in Nat

Init ==
  /\ conversations = <<>>
  /\ pc = [s \in Slots |-> "idle"]
  /\ req = [s \in Slots |-> NoReq]
  /\ callno = [s \in Slots |-> 0]
  /\ running = {}
  /\ ncalls = 0
  /\ conversation = [s \in Slots |-> NoDoc]
  /\ recent = [s \in Slots |-> <<>>]
  /\ messages_for_ai = [s \in Slots |-> <<>>]
  /\ response = [s \in Slots |-> ""]
  /\ resp = [s \in Slots |-> NoResp]
  /\ fault = [s \in Slots |-> {}]
  /\ before = [s \in Slots |-> <<>>]
  /\ appended = [s \in Slots |-> 0]
  /\ created = [s \in Slots |-> FALSE]
  /\ idsBefore = [s \in Slots |-> 0]

\* The looked-up document is never returned: every chat call inserts.
Resolves_Never(cid) == FALSE

\* ------------------------------------------------------------- requests
\* get_or_create_conversation finds a document for this identifier string.
Resolves(cid) == Truthy(cid) /\ IsValidObjectId(cid) /\ Exists(ObjectId(cid))

\* Chat requests in their handler that are going to insert a conversation.
WillCreate(s) ==
  /\ req[s].kind = "chat"
  /\ \/ pc[s] = "resolve" /\ ~Resolves(req[s].conversation_id)
     \/ pc[s] = "insert"
Room(maxc) == Len(conversations) + Cardinality({s \in Slots : WillCreate(s)}) < maxc

\* The requests a client may send.  POST /chat carries a ChatRequest
\* (message, optional conversation_id); GET /conversation/{id} carries a
\* non-empty path segment; GET / carries nothing.
ChatRequests(msgs, cids) == [kind : {"chat"}, message : msgs, conversation_id : cids]
GetRequests(cids) ==
  [kind : {"get"}, message : {""}, conversation_id : {c \in cids : Truthy(c)}]
RootRequests == [kind : {"root"}, message : {""}, conversation_id : {NoneId}]

\* A slot that holds no request in flight.
Free(s) == pc[s] \in {"idle", "done"}
\* No response is waiting to be sent.
Quiet == \A t \in Slots : pc[t] # "done"

\* A request arrives and waits for the event loop; it takes the first slot
\* that holds no request.
Arrive(s, cap) ==
  /\ pc[s] = "idle"
  /\ \A t \in Slots : t < s => pc[t] # "idle"
  /\ Quiet
  /\ ncalls + Cardinality({t \in Slots : pc[t] = "queued"}) < cap
  /\ pc' = [pc EXCEPT ![s] = "queued"]
  /\ UNCHANGED <<conversations, req, callno, running, ncalls, conversation, recent,
                 messages_for_ai, response, resp, fault, before, appended, created,
                 idsBefore>>

\* The event loop takes up a waiting request: the request is read and
\* validated (ChatRequest, the path parameter) and its handler is entered.
Dispatch(s, requests, maxc) ==
  /\ pc[s] = "queued"
  /\ LoopFree
  /\ Quiet
  /\ \E r \in requests :
       /\ (r.kind = "chat" /\ ~Resolves(r.conversation_id)) => Room(maxc)
       /\ req' = [req EXCEPT ![s] = r]
       /\ pc' = [pc EXCEPT ![s] = CASE r.kind = "chat" -> "resolve"
                                     [] r.kind = "get" -> "get"
                                     [] r.kind = "root" -> "root"]
  /\ running' = running \cup {s}
  /\ ncalls' = ncalls + 1
  /\ callno' = [callno EXCEPT ![s] = ncalls + 1]
  /\ UNCHANGED <<conversations, conversation, recent, messages_for_ai, response,
                 resp, fault, before, appended, created, idsBefore>>

\* A 500 that does not carry str(e).
Raise_Generic(s, e, text) ==
  /\ resp' = [resp EXCEPT ![s] = [NoResp EXCEPT !.status = 500,
                                                !.detail = "Internal Server Error"]]
  /\ fault' = [fault EXCEPT ![s] = @ \cup {e}]
  /\ pc' = [pc EXCEPT ![s] = "done"]
  /\ running' = running \ {s}

\* `except Exception as e: raise HTTPException(status_code=500,
\* detail=str(e))`: the handler ends with a 500 that carries str(e).
Raise(s, e, text) ==
  /\ resp' = [resp EXCEPT ![s] = [NoResp EXCEPT !.status = 500, !.detail = text]]
  /\ fault' = [fault EXCEPT ![s] = @ \cup {e}]
  /\ pc' = [pc EXCEPT ![s] = "done"]
  /\ running' = running \ {s}

\* ---------------------------------------------------------- POST /chat
\* get_or_create_conversation, lines 66-72: the lookup.  A falsy or
\* malformed identifier and a lookup that finds nothing all fall through to
\* the insert; InvalidId is swallowed by the bare except.
ResolveLookup(s) ==
  /\ Scheduled(s) /\ pc[s] = "resolve"
  /\ LET cid == req[s].conversation_id IN
     IF Resolves(cid)
     THEN /\ conversation' = [conversation EXCEPT ![s] = find_one(ObjectId(cid))]
          /\ before' = [before EXCEPT ![s] = find_one(ObjectId(cid)).messages]
          /\ pc' = [pc EXCEPT ![s] = "recent"]
          /\ fault' = fault
     ELSE /\ pc' = [pc EXCEPT ![s] = "insert"]
          /\ fault' = [fault EXCEPT ![s] =
                         IF Truthy(cid) /\ ~IsValidObjectId(cid)
                         THEN @ \cup {"invalid_id"} ELSE @]
          /\ UNCHANGED <<conversation, before>>
  /\ idsBefore' = [idsBefore EXCEPT ![s] = Len(conversations)]
  /\ UNCHANGED <<conversations, req, callno, running, ncalls, recent,
                 messages_for_ai, response, resp, appended, created>>

\* Lines 68 and 71-72: find_one raises (the store is unreachable); the bare
\* except swallows the error and the function goes on to insert.
LookupFail(s, maxc) ==
  /\ Scheduled(s) /\ pc[s] = "resolve"
  /\ Truthy(req[s].conversation_id) /\ IsValidObjectId(req[s].conversation_id)
  /\ Resolves(req[s].conversation_id) => Room(maxc)
  /\ pc' = [pc EXCEPT ![s] = "insert"]
  /\ fault' = [fault EXCEPT ![s] = @ \cup {"lookup"}]
  /\ idsBefore' = [idsBefore EXCEPT ![s] = Len(conversations)]
  /\ UNCHANGED <<conversations, req, callno, running, ncalls, conversation, recent,
                 messages_for_ai, response, resp, before, appended, created>>

\* Lines 74-80 and 115: insert_one returns; the new document is the
\* conversation of the call.
ResolveInsert(s) ==
  /\ Scheduled(s) /\ pc[s] = "insert"
  /\ conversations' = insert_one(conversations)
  /\ conversation' = [conversation EXCEPT ![s] =
                        [id |-> Len(conversations) + 1, messages |-> <<>>]]
  /\ before' = [before EXCEPT ![s] = <<>>]
  /\ pc' = [pc EXCEPT ![s] = "recent"]
  /\ created' = [created EXCEPT ![s] = TRUE]
  /\ UNCHANGED <<req, callno, running, ncalls, recent, messages_for_ai, response,
                 resp, fault, appended, idsBefore>>

\* Lines 118-137: the window is read and the prompt is built.
Recent(s) ==
  /\ Scheduled(s) /\ pc[s] = "recent"
  /\ LET window == get_recent_messages(conversation[s].id, DefaultLimit) IN
       /\ recent' = [recent EXCEPT ![s] = window]
       /\ messages_for_ai' = [messages_for_ai EXCEPT ![s] =
                                BuildPrompt(window, req[s].message)]
  /\ pc' = [pc EXCEPT ![s] = NextPc("recent")]
  /\ UNCHANGED <<conversations, req, callno, running, ncalls, conversation,
                 response, resp, fault, before, appended, created,
                 idsBefore>>

\* Line 140: llm.invoke returns a reply.
Invoke(s, replies) ==
  /\ Scheduled(s) /\ pc[s] = "invoke"
  /\ \E a \in replies : response' = [response EXCEPT ![s] = a]
  /\ pc' = [pc EXCEPT ![s] = NextPc("invoke")]
  /\ UNCHANGED <<conversations, req, callno, running, ncalls, conversation, recent,
                 messages_for_ai, resp, fault, before, appended, created,
                 idsBefore>>

\* Line 140: llm.invoke raises.
ModelFail(s) ==
  /\ Scheduled(s) /\ pc[s] = "invoke"
  /\ Raise(s, "model", "ProviderError")
  /\ UNCHANGED <<conversations, req, callno, ncalls, conversation, recent,
                 messages_for_ai, response, before, appended, created,
                 idsBefore>>

\* Line 143: add_message(conv_id, "human", request.message).
AppendUser(s) ==
  /\ Scheduled(s) /\ pc[s] = "append_user"
  /\ conversations' = add_message(conversations, conversation[s].id, UserRole,
                                  req[s].message, callno[s])
  /\ appended' = [appended EXCEPT ![s] = @ + 1]
  /\ pc' = [pc EXCEPT ![s] = NextPc("append_user")]
  /\ UNCHANGED <<req, callno, running, ncalls, conversation, recent,
                 messages_for_ai, response, resp, fault, before, created,
                 idsBefore>>

\* Line 144: add_message(conv_id, "ai", response.content).
AppendAi(s) ==
  /\ Scheduled(s) /\ pc[s] = "append_ai"
  /\ conversations' = add_message(conversations, conversation[s].id, AssistantRole,
                                  response[s], callno[s])
  /\ appended' = [appended EXCEPT ![s] = @ + 1]
  /\ pc' = [pc EXCEPT ![s] = NextPc("append_ai")]
  /\ UNCHANGED <<req, callno, running, ncalls, conversation, recent,
                 messages_for_ai, response, resp, fault, before, created,
                 idsBefore>>

\* Lines 78, 99, 84: insert_one, find_one or update_one raises; nothing is
\* written by the failed call.
StoreFail(s) ==
  /\ Scheduled(s) /\ pc[s] \in {"insert", "recent", "append_user", "append_ai"}
  /\ Raise(s, "store", "StoreError")
  /\ UNCHANGED <<conversations, req, callno, ncalls, conversation, recent,
                 messages_for_ai, response, before, appended, created,
                 idsBefore>>

\* The request's own identifier echoed in the response.
ReturnedId_Echo(s) == req[s].conversation_id

\* Lines 115 and 148: conversation_id=str(conv_id), conv_id the _id of the
\* document get_or_create_conversation returned.
ReturnedId(s) == Str(conversation[s].id)

\* Lines 146-149: the 200 response.
Return(s) ==
  /\ Scheduled(s) /\ pc[s] = "return"
  /\ resp' = [resp EXCEPT ![s] = [NoResp EXCEPT !.status = 200,
                                                !.response = response[s],
                                                !.conversation_id = ReturnedId(s)]]
  /\ pc' = [pc EXCEPT ![s] = "done"]
  /\ running' = running \ {s}
  /\ UNCHANGED <<conversations, req, callno, ncalls, conversation, recent,
                 messages_for_ai, response, fault, before, appended, created,
                 idsBefore>>

\* ------------------------------------------- GET /conversation/{id}, GET /
NotFoundDetail == "Conversation not found"
\* str(HTTPException(404, detail)): "404: Conversation not found" where
\* starlette defines __str__, "" where it does not.
StrOfNotFound == {"404: " \o NotFoundDetail, ""}

\* Lines 157-165 when find_one returns.  The HTTPException(404) of line 160
\* is raised inside the try block, so `except Exception` catches it.
GetConversation(s) ==
  /\ Scheduled(s) /\ pc[s] = "get"
  /\ LET cid == req[s].conversation_id IN
     IF ~IsValidObjectId(cid)
     THEN Raise(s, "invalid_id", "InvalidId")
     ELSE IF ~Exists(ObjectId(cid))
     THEN \E text \in StrOfNotFound : Raise(s, "not_found", text)
     ELSE /\ resp' = [resp EXCEPT ![s] =
                        [NoResp EXCEPT !.status = 200,
                                       !.conversation_id = Str(find_one(ObjectId(cid)).id),
                                       !.doc = find_one(ObjectId(cid))]]
          /\ pc' = [pc EXCEPT ![s] = "done"]
          /\ running' = running \ {s}
          /\ fault' = fault
  /\ UNCHANGED <<conversations, req, callno, ncalls, conversation, recent,
                 messages_for_ai, response, before, appended, created,
                 idsBefore>>

\* Line 158: find_one raises.
GetStoreFail(s) ==
  /\ Scheduled(s) /\ pc[s] = "get"
  /\ IsValidObjectId(req[s].conversation_id)
  /\ Raise(s, "store", "StoreError")
  /\ UNCHANGED <<conversations, req, callno, ncalls, conversation, recent,
                 messages_for_ai, response, before, appended, created,
                 idsBefore>>

\* Lines 105-107.
Root(s) ==
  /\ Scheduled(s) /\ pc[s] = "root"
  /\ resp' = [resp EXCEPT ![s] = [NoResp EXCEPT !.status = 200, !.response = "Welcome"]]
  /\ pc' = [pc EXCEPT ![s] = "done"]
  /\ running' = running \ {s}
  /\ UNCHANGED <<conversations, req, callno, ncalls, conversation, recent,
                 messages_for_ai, response, fault, before, appended, created,
                 idsBefore>>

\* The response of an ended handler is sent and the request is gone.
Retire(s) ==
  /\ pc[s] = "done"
  /\ pc' = [pc EXCEPT ![s] = "idle"]
  /\ req' = [req EXCEPT ![s] = NoReq]
  /\ callno' = [callno EXCEPT ![s] = 0]
  /\ conversation' = [conversation EXCEPT ![s] = NoDoc]
  /\ recent' = [recent EXCEPT ![s] = <<>>]
  /\ messages_for_ai' = [messages_for_ai EXCEPT ![s] = <<>>]
  /\ response' = [response EXCEPT ![s] = ""]
  /\ resp' = [resp EXCEPT ![s] = NoResp]
  /\ fault' = [fault EXCEPT ![s] = {}]
  /\ before' = [before EXCEPT ![s] = <<>>]
  /\ appended' = [appended EXCEPT ![s] = 0]
  /\ created' = [created EXCEPT ![s] = FALSE]
  /\ idsBefore' = [idsBefore EXCEPT ![s] = 0]
  /\ UNCHANGED <<conversations, running, ncalls>>

\* -------------------------------------------------------- specifications
Requests ==
  ChatRequests(Msgs, CidInputs(MaxConvs)) \cup GetRequests(CidInputs(MaxConvs))
  \cup RootRequests
RequestsLong == ChatRequests(MsgsLong, {NoneId} \cup {Str(n) : n \in 1..MaxConvsLong})

Next ==
  \E s \in Slots :
    \/ Arrive(s, MaxCalls)
    \/ Dispatch(s, Requests, MaxConvs)
    \/ ResolveLookup(s)
    \/ LookupFail(s, MaxConvs)
    \/ ResolveInsert(s)
    \/ Recent(s)
    \/ Invoke(s, Replies)
    \/ ModelFail(s)
    \/ AppendUser(s)
    \/ AppendAi(s)
    \/ StoreFail(s)
    \/ Return(s)
    \/ GetConversation(s)
    \/ GetStoreFail(s)
    \/ Root(s)
    \/ Retire(s)

Spec == Init /\ [][Next]_vars

\* Long runs of chat calls on few conversations, with a working store: the
\* same handlers, fewer input values; the model may fail.
NextLong ==
  \E s \in Slots :
    \/ Arrive(s, MaxCallsLong)
    \/ Dispatch(s, RequestsLong, MaxConvsLong)
    \/ ResolveLookup(s)
    \/ ResolveInsert(s)
    \/ Recent(s)
    \/ Invoke(s, RepliesLong)
    \/ ModelFail(s)
    \/ AppendUser(s)
    \/ AppendAi(s)
    \/ Return(s)
    \/ Retire(s)

SpecLong == Init /\ [][NextLong]_vars


\* ================================================================ claims
Messages(c) == conversations[c].messages
IsChat(s) == req[s].kind = "chat"
Ended(s) == pc[s] = "done"
\* The two turns call s pushes on success.
UserTurn(s) == [role |-> UserRole, content |-> req[s].message, call |-> callno[s]]
AssistantTurn(s) == [role |-> AssistantRole, content |-> resp[s].response, call |-> callno[s]]
\* The call that pushed message m is between its two add_message calls.
MidPair(m) == \E s \in Slots : callno[s] = m.call /\ ~Free(s) /\ appended[s] = 1
\* Every stored message of the conversation was pushed by call s.
OnlyCallOf(c, s) == \A i \in 1..Len(Messages(c)) : Messages(c)[i].call = callno[s]

\* C1 (as claimed): in every conversation, each stored user turn of a call
\* that has ended is immediately followed by the assistant turn of the same
\* call, and each stored assistant turn immediately follows the user turn of
\* its own call.
C1_PairsNeverSplit ==
  \A c \in Ids : \A i \in 1..Len(Messages(c)) :
    LET m == Messages(c)[i] IN
      /\ (m.role = UserRole /\ ~MidPair(m)) =>
           /\ i < Len(Messages(c))
           /\ Messages(c)[i + 1].role = AssistantRole
           /\ Messages(c)[i + 1].call = m.call
      /\ m.role = AssistantRole =>
           /\ i > 1
           /\ Messages(c)[i - 1].role = UserRole
           /\ Messages(c)[i - 1].call = m.call

\* C2: a chat call whose model invocation raises has pushed no message, and
\* at its end its conversation holds the messages it held when the call
\* resolved it (none, for a conversation the call created).
C2_ModelFailureAppendsNothing ==
  [][\A s \in Slots :
       (pc[s] # "done" /\ pc'[s] = "done" /\ "model" \in fault'[s]) =>
         /\ appended'[s] = 0
         /\ conversations'[conversation[s].id].messages = before[s]]_vars

C2_Witness ==
  \E s \in Slots :
    /\ Ended(s) /\ IsChat(s) /\ "model" \in fault[s] /\ resp[s].status = 500
    /\ ~created[s] /\ before[s] # <<>>

\* C3 (as claimed): a chat call that ended with 200 made exactly two pushes
\* and a chat call that ended with a failure made none.
C3_TwoAppendsOrNone ==
  \A s \in Slots :
    (Ended(s) /\ IsChat(s)) =>
      /\ resp[s].status = 200 => appended[s] = 2
      /\ resp[s].status # 200 => appended[s] = 0

\* C4 (as claimed): every stored message has role "user" or "assistant".
C4_RolesUserAssistant ==
  \A c \in Ids : \A i \in 1..Len(Messages(c)) :
    Messages(c)[i].role \in {"user", "assistant"}

RolesOf(msgs) == [i \in 1..Len(msgs) |-> msgs[i].role]

\* C4 (amended): every stored message has role "human" or "ai", never
\* "system"; a conversation that held nothing before a successful chat call
\* and holds only that call's messages has the roles <<"human", "ai">>.
C4_RolesHumanAi ==
  /\ \A c \in Ids : \A i \in 1..Len(Messages(c)) :
       Messages(c)[i].role \in {"human", "ai"}
  /\ \A s \in Slots :
       (Ended(s) /\ IsChat(s) /\ resp[s].status = 200 /\ before[s] = <<>>
          /\ OnlyCallOf(conversation[s].id, s)) =>
         RolesOf(Messages(conversation[s].id)) = <<"human", "ai">>

C4_Witness ==
  \E s \in Slots :
    /\ Ended(s) /\ IsChat(s) /\ resp[s].status = 200 /\ before[s] = <<>>
    /\ OnlyCallOf(conversation[s].id, s)
    /\ Len(Messages(conversation[s].id)) = 2


Resolved(s) == conversation[s] # NoDoc
\* The identifier of request s named a document when s began to resolve it.
NamedExisting(s) ==
  LET cid == req[s].conversation_id IN
    Truthy(cid) /\ IsValidObjectId(cid) /\ ObjectId(cid) \in 1..idsBefore[s]

\* C5: (a) a chat call whose identifier names a stored conversation without
\* messages resolves to that conversation, with zero messages;
\* (b) once a chat call on a conversation that held nothing has ended with
\* 200 and no other call has pushed to it, get_recent_messages with any
\* limit >= 2 on the returned identifier is exactly the user turn with the
\* request's message followed by the assistant turn with the returned reply.
C5_RoundTrip ==
  \A s \in Slots : IsChat(s) =>
    /\ (pc[s] = "recent" /\ NamedExisting(s) /\ "lookup" \notin fault[s]
          /\ Messages(ObjectId(req[s].conversation_id)) = <<>>) =>
         conversation[s] = [id |-> ObjectId(req[s].conversation_id), messages |-> <<>>]
    /\ (Ended(s) /\ resp[s].status = 200 /\ before[s] = <<>>
          /\ OnlyCallOf(conversation[s].id, s)) =>
         \A limit \in 2..MaxLimit :
           get_recent_messages(ObjectId(resp[s].conversation_id), limit)
             = <<UserTurn(s), AssistantTurn(s)>>

C5_Witness ==
  \E s \in Slots :
    /\ IsChat(s) /\ Ended(s) /\ resp[s].status = 200 /\ before[s] = <<>>
    /\ NamedExisting(s) /\ ~created[s]
    /\ OnlyCallOf(conversation[s].id, s)
    /\ get_recent_messages(conversation[s].id, 2) = <<UserTurn(s), AssistantTurn(s)>>

\* Successful chat calls on conversation c: each pushed one assistant turn.
Successes(c) ==
  Cardinality({i \in 1..Len(Messages(c)) : Messages(c)[i].role = AssistantRole})

\* C6: for a conversation with more than 5 successful chat calls,
\* get_recent_messages(limit=5) has exactly 5 messages, and they are the 5
\* last stored messages in stored order.
C6_WindowBound ==
  \A c \in Ids : Successes(c) > 5 =>
    LET w == get_recent_messages(c, 5)
        n == Len(Messages(c))
    IN /\ Len(w) = 5
       /\ \A k \in 1..5 : w[k] = Messages(c)[n - 5 + k]

C6_Witness ==
  \E c \in Ids :
    /\ Successes(c) > 5
    /\ Len(get_recent_messages(c, 5)) = 5
    /\ get_recent_messages(c, 5)[5] = Messages(c)[Len(Messages(c))]

\* Identifiers to read by: those of the stored documents and one of none.
ProbeIds == 1..(Len(conversations) + 1)

\* C7 (as claimed): get_recent_messages is empty when the conversation does
\* not exist or has fewer than `limit` messages, and otherwise is the last
\* `limit` messages in stored order.
C7_EmptyWhenFewer ==
  \A oid \in ProbeIds : \A limit \in 1..MaxLimit :
    LET w == get_recent_messages(oid, limit) IN
      IF ~Exists(oid) \/ Len(Messages(oid)) < limit
      THEN w = <<>>
      ELSE /\ Len(w) = limit
           /\ \A k \in 1..limit : w[k] = Messages(oid)[Len(Messages(oid)) - limit + k]

\* C7 (amended): for limit >= 1, get_recent_messages is empty when the
\* conversation does not exist, is the whole message sequence when the
\* conversation has at most `limit` messages, and otherwise is the last
\* `limit` messages in stored order.
C7_AllWhenFewer ==
  \A oid \in ProbeIds : \A limit \in 1..MaxLimit :
    LET w == get_recent_messages(oid, limit) IN
      IF ~Exists(oid) THEN w = <<>>
      ELSE IF Len(Messages(oid)) <= limit THEN w = Messages(oid)
      ELSE /\ Len(w) = limit
           /\ \A k \in 1..limit : w[k] = Messages(oid)[Len(Messages(oid)) - limit + k]

C7_Witness ==
  \E c \in Ids :
    /\ Len(Messages(c)) = 3
    /\ get_recent_messages(c, 5) = Messages(c)
    /\ Len(get_recent_messages(c, 2)) = 2
    /\ get_recent_messages(Len(conversations) + 1, 5) = <<>>


\* What get_or_create_conversation returned to call s is a conversation the
\* call inserted: empty, with an identifier no earlier document had.
ReturnedNew(s) ==
  /\ created[s]
  /\ conversation[s].messages = <<>>
  /\ conversation[s].id \notin 1..idsBefore[s]
\* What it returned is the stored document the identifier named.
ReturnedNamed(s) ==
  /\ ~created[s]
  /\ conversation[s].id = ObjectId(req[s].conversation_id)
  /\ conversation[s].messages = before[s]

\* C8 (as claimed): get_or_create_conversation never fails, so a chat call
\* never ends without a conversation; for an identifier that named a stored
\* document it returned that document and inserted nothing, and for any
\* other identifier it returned a newly inserted, empty conversation.
C8_ResolveNeverFails ==
  \A s \in Slots : IsChat(s) =>
    /\ Ended(s) => Resolved(s)
    /\ Resolved(s) => IF NamedExisting(s) THEN ReturnedNamed(s) ELSE ReturnedNew(s)

\* C8 (amended): get_or_create_conversation fails only when insert_one
\* raises; when it returns, it returned the named stored document and
\* inserted nothing if the identifier named one and find_one returned, and
\* otherwise (absent, empty, malformed or unknown identifier, or find_one
\* raised) a newly inserted empty conversation whose identifier no earlier
\* document had.
C8_ResolveFallsBackToCreate ==
  \A s \in Slots : IsChat(s) =>
    /\ (Ended(s) /\ ~Resolved(s)) => ("store" \in fault[s] /\ resp[s].status = 500)
    /\ Resolved(s) =>
         IF NamedExisting(s) /\ "lookup" \notin fault[s]
         THEN ReturnedNamed(s)
         ELSE ReturnedNew(s)
    /\ (pc[s] \notin {"idle", "queued", "resolve", "insert", "done"}) => Resolved(s)

C8_Witness ==
  \E s \in Slots :
    /\ IsChat(s) /\ Resolved(s) /\ req[s].conversation_id = BadStr
    /\ ReturnedNew(s) /\ idsBefore[s] >= 1
    /\ conversation[s].id = idsBefore[s] + 1

\* C9 (as claimed): a GET /conversation/{id} that found the document ends
\* with 200 and the document; one whose well-formed identifier named no
\* document ends with 404 and detail "Conversation not found"; a malformed
\* identifier or a store failure ends with 500.
C9_NotFoundIs404 ==
  \A s \in Slots : (Ended(s) /\ req[s].kind = "get") =>
    /\ fault[s] = {} =>
         /\ resp[s].status = 200
         /\ resp[s].doc.id = ObjectId(req[s].conversation_id)
    /\ "not_found" \in fault[s] =>
         /\ resp[s].status = 404
         /\ resp[s].detail = NotFoundDetail
    /\ (fault[s] \cap {"invalid_id", "store"} # {}) => resp[s].status = 500

\* The text of the exception that ended a handler.
Propagated(s) == fault[s] \cap {"model", "store"}
TextOf(e) == IF e = "model" THEN "ProviderError" ELSE "StoreError"

\* C10 (as claimed): a chat call in which the model or the store raised
\* ends with 500 and the text of the failure; a chat call in which neither
\* raised ends with 200, whatever its identifier.
C10_EveryFailureIs500 ==
  \A s \in Slots : (Ended(s) /\ IsChat(s)) =>
    IF fault[s] \cap {"model", "store", "lookup"} # {}
    THEN resp[s].status = 500 /\ resp[s].detail \in {TextOf(e) : e \in fault[s] \ {"invalid_id"}}
    ELSE resp[s].status = 200

\* C10 (amended): a chat call in which llm.invoke, insert_one, the window
\* read or an add_message raised ends with 500 and the text of that
\* failure; a failure of the lookup in get_or_create_conversation (InvalidId
\* or a find_one error) is swallowed; a chat call in which nothing else
\* raised ends with 200 and the identifier of its conversation, whatever
\* identifier it was sent.
C10_PropagatedFailureIs500 ==
  \A s \in Slots : (Ended(s) /\ IsChat(s)) =>
    IF Propagated(s) # {}
    THEN /\ resp[s].status = 500
         /\ \E e \in Propagated(s) : Propagated(s) = {e} /\ resp[s].detail = TextOf(e)
    ELSE /\ resp[s].status = 200
         /\ resp[s].conversation_id = Str(conversation[s].id)

C10_Witness ==
  \E s \in Slots :
    /\ IsChat(s) /\ Ended(s) /\ req[s].conversation_id = BadStr
    /\ created[s] /\ fault[s] = {"invalid_id", "model"}
    /\ resp[s].status = 500 /\ resp[s].detail = "ProviderError"


IsPrefix(a, b) == Len(a) <= Len(b) /\ SubSeq(b, 1, Len(a)) = a

\* C11: in every step, every stored conversation is still stored under the
\* same identifier and its previous message sequence is a prefix of its next
\* one: nothing is removed, replaced or reordered, and no conversation
\* disappears.
C11_AppendOnly ==
  [][/\ Len(conversations') >= Len(conversations)
     /\ \A c \in 1..Len(conversations) :
          /\ conversations'[c].id = conversations[c].id
          /\ IsPrefix(conversations[c].messages, conversations'[c].messages)]_vars

C11_Witness ==
  \E c \in Ids : \E i, j \in 1..Len(Messages(c)) :
    /\ i < j
    /\ Messages(c)[i].call < Messages(c)[j].call
    /\ Len(conversations) >= 2


\* C12 (as claimed): a chat call that has ended has created a conversation
\* exactly when its identifier was absent or named no stored conversation.
C12_CreatedIffUnresolved ==
  \A s \in Slots : (IsChat(s) /\ Ended(s)) => (created[s] <=> ~NamedExisting(s))

\* A step of GET / or GET /conversation/{id}.
GetStep(s) == req[s].kind \in {"get", "root"} /\ pc'[s] # pc[s]

\* C12: (a) a chat call whose identifier named a stored conversation and
\* whose lookup returned has created none, and the store holds as many
\* conversations at its end as at its start; any other chat call has created
\* exactly one, also when its model invocation then failed, unless insert_one
\* raised, and then it created none and ended with the store error;
\* (b) a step adds at most one conversation, and only the insert of a chat
\* call adds one; (c) a step of GET / or GET /conversation/{id} leaves the
\* store as it was.
C12_CreateExactlyWhenUnresolved ==
  /\ [](\A s \in Slots : (IsChat(s) /\ Ended(s)) =>
          /\ IF NamedExisting(s) /\ "lookup" \notin fault[s]
             THEN ~created[s]
             ELSE created[s] \/ ("store" \in fault[s] /\ ~Resolved(s))
          /\ created[s] => /\ Len(conversations) = idsBefore[s] + 1
                           /\ conversation[s].id = idsBefore[s] + 1
          /\ ~created[s] => Len(conversations) = idsBefore[s])
  /\ [][/\ Len(conversations') <= Len(conversations) + 1
        /\ Len(conversations') # Len(conversations) =>
             \E s \in Slots : /\ IsChat(s) /\ pc[s] = "insert"
                              /\ ~created[s] /\ created'[s]
        /\ \A s \in Slots : GetStep(s) => conversations' = conversations]_vars

C12_Witness ==
  \E s \in Slots :
    /\ IsChat(s) /\ Ended(s) /\ created[s] /\ "model" \in fault[s]
    /\ Truthy(req[s].conversation_id) /\ IsValidObjectId(req[s].conversation_id)
    /\ Len(conversations) = 2


\* Chat call s is inside one of its round trips: find_one, insert_one,
\* llm.invoke or update_one has been called and has not returned.
Suspended(s) ==
  /\ IsChat(s) /\ Scheduled(s)
  /\ pc[s] \in {"resolve", "insert", "recent", "invoke", "append_user", "append_ai"}
\* Request t has arrived and has not been answered.
InFlight(t) == pc[t] \notin {"idle", "done"}
\* The next step of request t, whatever it is.
StepOf(t) ==
  \/ Dispatch(t, Requests, MaxConvs)
  \/ ResolveLookup(t) \/ LookupFail(t, MaxConvs) \/ ResolveInsert(t)
  \/ Recent(t) \/ Invoke(t, Replies) \/ ModelFail(t)
  \/ AppendUser(t) \/ AppendAi(t) \/ StoreFail(t) \/ Return(t)
  \/ GetConversation(t) \/ GetStoreFail(t) \/ Root(t)

\* C13 (as claimed): while a chat call is inside its model invocation or a
\* document-store round trip, every other request in flight can take its
\* next step.
C13_OthersCanStep ==
  \A s, t \in Slots :
    (s # t /\ Suspended(s) /\ InFlight(t)) => ENABLED StepOf(t)


Min(a, b) == IF a <= b THEN a ELSE b
\* Chat call s has ended with status 200.
Succeeded(s) == IsChat(s) /\ Ended(s) /\ resp[s].status = 200

\* C14: for every chat call that has ended with status 200, the user turn of
\* the call is stored in its conversation, and the history the call read for
\* the model is exactly the min(5, i-1) messages stored immediately before
\* that user turn (at position i), in stored order.
C14_HistoryPrecedesOwnTurn ==
  \A s \in Slots : Succeeded(s) =>
    LET msgs == Messages(conversation[s].id) IN
      \E i \in 1..Len(msgs) :
        /\ msgs[i] = UserTurn(s)
        /\ LET n == Len(recent[s]) IN
             /\ n = Min(DefaultLimit, i - 1)
             /\ \A k \in 1..n : recent[s][k] = msgs[i - 1 - n + k]

C14_Witness ==
  \E s \in Slots :
    /\ Succeeded(s)
    /\ Len(recent[s]) = 5
    /\ Len(Messages(conversation[s].id)) > 7
    /\ recent[s][5] = Messages(conversation[s].id)[Len(Messages(conversation[s].id)) - 2]


\* C15: the prompt of a chat call is the system instruction, then the window
\* the call read (at most 5 messages, the last stored ones in stored order at
\* the time of the model invocation), each stored user turn as a human turn
\* and each stored assistant turn as a model turn with the stored content,
\* then the request's message as a human turn; its length is the window's
\* length plus 2 and never exceeds 7.
C15_PromptShape ==
  \A s \in Slots : (IsChat(s) /\ messages_for_ai[s] # <<>>) =>
    LET p == messages_for_ai[s]
        w == recent[s]
        n == Len(recent[s])
        msgs == Messages(conversation[s].id)
    IN /\ n <= 5 /\ Len(p) = n + 2 /\ Len(p) <= 7
       /\ p[1] = [type |-> "system", content |-> SystemPrompt]
       /\ \A k \in 1..n :
            /\ p[k + 1].content = w[k].content
            /\ w[k].role = UserRole => p[k + 1].type = "human"
            /\ w[k].role = AssistantRole => p[k + 1].type = "ai"
            /\ w[k].role \in {UserRole, AssistantRole}
       /\ p[n + 2] = [type |-> "human", content |-> req[s].message]
       /\ pc[s] = "invoke" =>
            /\ n = Min(5, Len(msgs))
            /\ \A k \in 1..n : w[k] = msgs[Len(msgs) - n + k]

C15_Witness ==
  \E s \in Slots :
    /\ IsChat(s) /\ pc[s] = "invoke"
    /\ Len(messages_for_ai[s]) = 7
    /\ Len(Messages(conversation[s].id)) > 5
    /\ messages_for_ai[s][2].type = "ai" /\ messages_for_ai[s][3].type = "human"


\* The identifier of chat call s names a conversation that held the pair of
\* an earlier successful call when s began: that call returned this identifier.
SuppliesReturnedId(s) ==
  /\ NamedExisting(s)
  /\ \E i \in 1..Len(Messages(ObjectId(req[s].conversation_id))) :
       LET m == Messages(ObjectId(req[s].conversation_id))[i] IN
         m.role = AssistantRole /\ m.call < callno[s]

ProducerOf(m) == {s \in Slots : pc[s] # "idle" /\ IsChat(s) /\ callno[s] = m.call}

\* C17 (as claimed): every stored turn lies in the conversation its call
\* resolved or created, and once that call has ended the identifier of that
\* conversation has been returned to its caller.
C17_TurnsInReturnedConversation ==
  \A c \in Ids : \A i \in 1..Len(Messages(c)) :
    \A s \in ProducerOf(Messages(c)[i]) :
      /\ conversation[s].id = c
      /\ Ended(s) => /\ resp[s].status = 200
                     /\ resp[s].conversation_id = Str(c)

====
